---- MODULE Spec2Model ----
(***************************************************************************)
(* Model of the devpilot-llm-agent: the /chat handler (api.py), the agent  *)
(* graph call_model -> call_tool -> call_model / ask_for_clarification     *)
(* (main.py), the tool bodies and the remote operation clients             *)
(* (project_tools.py, task_tools.py, utils/api_caller.py).                 *)
(*                                                                         *)
(* Texts are sequences of tokens; a fixed message of the program is a      *)
(* one-token text.  The language model and the backend are the environment *)
(* and are drawn nondeterministically at each step.                        *)
(***************************************************************************)
EXTENDS Integers, Sequences, FiniteSets, TLC

\* ---------------------------------------------------------------- bounds
\* Largest number of tool calls the language model proposes in one answer.
MaxBatch == 2
\* Number of graph steps after which the graph runtime stops the run with a
\* GraphRecursionError (the run is invoked without a configuration, so the
\* library's own limit applies; it is scaled down here).
RecursionLimit == 3
\* Largest number of records in the prior history of a request (SpecLoad).
MaxHistory == 2
\* Rows in the message store up to which a further turn is started.
MaxStored == 3

\* ---------------------------------------------------------------- values
None == "None"
NoId == << >>
NoText == << >>

\* api.py: the only user of the model; the Authorization header is a text
\* split at spaces.
UserIds == {None, "7"}
AuthHeaders == {<< >>, <<"Bearer", "tok">>, <<"Basic", "abc">>}
UserInput == <<"hi">>

\* Fixed texts of the program.
MissingUserIdMessage == <<"Error: User ID is missing from agent state, cannot execute tools.">>
ToolErrorReply == <<"tool-error-apology">>
ToolSuccessReply == <<"tool-success-placeholder">>
NoResponseReply == <<"no-response-fallback">>

\* Texts the language model can answer with: empty, a plain statement, a
\* question, a text with the question mark inside, a text with a keyword.
ClarificationKeywords == {"kw-what", "kw-which", "kw-when", "kw-assignee", "kw-name-is", "kw-information"}
ModelTexts == { << >>, <<"done">>, <<"which", "?">>, <<"?", "ok">>, <<"kw-which", "one">> }

\* ---------------------------------------------------------------- messages
HumanMessage(c) == [type |-> "human", content |-> c, tool_calls |-> << >>, tool_call_id |-> NoId, name |-> None]
AIMessage(c, tcs) == [type |-> "ai", content |-> c, tool_calls |-> tcs, tool_call_id |-> NoId, name |-> None]
ToolMessage(c, id, n) == [type |-> "tool", content |-> c, tool_calls |-> << >>, tool_call_id |-> id, name |-> n]

SystemMessage(c) == [type |-> "system", content |-> c, tool_calls |-> << >>, tool_call_id |-> NoId, name |-> None]

\* api.py: a record of the persisted history sent with a request.
ChatHistoryMessage(t, c, tcs, id, n) == [type |-> t, content |-> c, tool_calls |-> tcs, tool_call_id |-> id, name |-> n]

\* The prior history a request carries: one earlier exchange.
PriorHistories == { << ChatHistoryMessage("user", <<"hello">>, << >>, NoId, None),
                       ChatHistoryMessage("bot", <<"done">>, << >>, NoId, None) >> }

\* api.py convert_lc_message_to_chm: a message as a persisted record.
convert_lc_message_to_chm(lc_message) ==
    CASE lc_message.type = "human" ->
            ChatHistoryMessage("human", lc_message.content, << >>, NoId, None)
      [] lc_message.type = "ai" ->
            ChatHistoryMessage("ai", lc_message.content, lc_message.tool_calls, NoId, None)
      [] lc_message.type = "system" ->
            ChatHistoryMessage("system", lc_message.content, << >>, NoId, None)
      [] lc_message.type = "tool" ->
            ChatHistoryMessage("tool", lc_message.content, << >>, lc_message.tool_call_id, lc_message.name)
      [] OTHER ->
            ChatHistoryMessage("bot", lc_message.content, << >>, NoId, None)

\* api.py: the history conversion builds ToolCall(...) for an "ai" record
\* with tool calls, a name api.py neither imports nor defines: NameError.
LoadRaises(recs) ==
    \E i \in 1..Len(recs) : recs[i].type = "ai" /\ recs[i].tool_calls # << >>

\* api.py: the records of the request turned into messages; a tool record
\* without id or name and a record of an unknown type are skipped.  (An
\* "ai" record reaches its AIMessage only with no tool calls, see LoadRaises.)
RECURSIVE LoadHistory(_)
LoadHistory(recs) ==
    IF recs = << >> THEN << >>
    ELSE LET m == Head(recs)
             rest == LoadHistory(Tail(recs))
         IN CASE m.type \in {"user", "human"} -> <<HumanMessage(m.content)>> \o rest
              [] m.type = "bot" -> <<AIMessage(m.content, << >>)>> \o rest
              [] m.type = "ai" -> <<AIMessage(m.content, m.tool_calls)>> \o rest
              [] m.type = "tool" ->
                    IF m.tool_call_id # NoId /\ m.name # None
                    THEN <<ToolMessage(m.content, m.tool_call_id, m.name)>> \o rest
                    ELSE rest
              [] m.type = "system" -> <<SystemMessage(m.content)>> \o rest
              [] OTHER -> rest

\* ---------------------------------------------------------------- tools
\* main.py: the tools the agent binds and dispatches by name.
tools == { "create_project", "get_all_projects_with_tasks", "get_single_project_with_tasks",
           "update_project", "delete_project", "get_dashboard_projects", "create_task",
           "get_all_tasks", "get_single_task", "update_task", "update_task_tags",
           "update_task_status", "update_task_schedule", "remove_task_tags" }
tool_map == [n \in tools |-> n]

ProjectTools == { "create_project", "get_all_projects_with_tasks", "get_single_project_with_tasks",
                  "update_project", "delete_project", "get_dashboard_projects" }

\* Method and path each tool body hands to its client.
ToolMethod(n) ==
    CASE n \in {"create_project", "create_task"} -> "POST"
      [] n \in {"get_all_projects_with_tasks", "get_dashboard_projects",
                "get_single_project_with_tasks", "get_all_tasks", "get_single_task"} -> "GET"
      [] n \in {"update_project", "update_task"} -> "PUT"
      [] n \in {"delete_project", "delete_task", "remove_task_tags"} -> "DELETE"
      [] OTHER -> "PATCH"
ToolPath(n) ==
    CASE n = "create_project" -> "/projects/new"
      [] n = "get_all_projects_with_tasks" -> "/projects/mypage"
      [] n = "get_dashboard_projects" -> "/projects/dashboard"
      [] n \in {"get_single_project_with_tasks", "update_project", "delete_project"} -> "/projects/{id}"
      [] n = "create_task" -> "/tasks/new"
      [] n = "get_all_tasks" -> "/tasks/all"
      [] n \in {"get_single_task", "update_task", "delete_task"} -> "/tasks/{id}"
      [] n = "update_task_status" -> "/tasks/{id}/status"
      [] n \in {"update_task_tags", "remove_task_tags"} -> "/tasks/{id}/tags"
      [] OTHER -> "/tasks/{id}/schedule"

\* What the backend and the network do with one request.
\*   ok            2xx with a non-empty JSON body
\*   ok_empty_list 2xx with the JSON body []
\*   conn_refused  requests.exceptions.ConnectionError
\*   timeout       requests.exceptions.Timeout
\*   http_error    4xx/5xx answer
\*   bad_request   a RequestException raised before a response exists
\*   ok_no_content 2xx with an empty body (drawn for direct invocations only)
BackendOutcomes == {"ok", "ok_empty_list", "conn_refused", "timeout", "http_error", "bad_request"}

\* A tool's return value: "data" (a non-empty JSON value without an error
\* field), "empty" (an empty list), "error_dict" (a mapping with an 'error'
\* field: the client reporting a failure as a value), "message_success"
\* (the mapping {"message": "Success"} of the project client).
Returned(v, reqs) == [raised |-> FALSE, value |-> v, requests |-> reqs]
Raised(e, reqs) == [raised |-> TRUE, value |-> e, requests |-> reqs]

\* project_tools.py: the client of the project tools; sends no credential.
_call_spring_api(url, method, path, env) ==
    LET req == << [method |-> method, path |-> path, authorization |-> None] >> IN
    IF url = None THEN Returned("error_dict", << >>)
    ELSE IF method \notin {"POST", "GET", "PUT", "DELETE"} THEN Returned("error_dict", << >>)
    ELSE CASE env = "ok" -> Returned("data", req)
           [] env = "ok_empty_list" -> Returned("empty", req)
           [] env = "ok_no_content" -> Returned("message_success", req)
           [] env \in {"conn_refused", "timeout", "http_error"} -> Returned("error_dict", req)
           [] OTHER -> Raised("UnboundLocalError", << >>)

\* project_tools.py: the fields of a mapping the client of the project
\* tools builds itself (the fields of a JSON body are the backend's).
ValueFields(v) ==
    CASE v = "message_success" -> {"message"}
      [] v = "error_dict" -> {"error"}
      [] OTHER -> {}

\* utils/api_caller.py: what the backend and the network do with one
\* request of the client of the task tools: an answer with a status and a
\* body ("json", "empty", "text"), or a failure without an answer.
NoAnswer == 0
StatusCodes == {200, 204, 400, 401, 500}
Responses ==
    [kind : {"response"}, status_code : StatusCodes, body : {"json", "empty", "text"}]
    \cup [kind : {"conn_refused", "timeout", "request_failed"}, status_code : {NoAnswer}, body : {"none"}]

\* A mapping returned by call_spring_api: whether it has an 'error' field,
\* its 'status_code' field (NoAnswer when it has none), and the response
\* text quoted in the error ("none": the text 'no response content').
ApiValue(kind, error, status_code, detail) ==
    [kind |-> kind, error |-> error, status_code |-> status_code, detail |-> detail]

\* requests: the truth value of a response is response.ok.
ResponseTruthy(resp) == resp.kind = "response" /\ resp.status_code < 400

\* utils/api_caller.py: the handler of HTTPError (raise_for_status on a
\* status of 400 and above).
HTTPErrorValue(resp) ==
    LET error_detail == IF ResponseTruthy(resp) THEN resp.body ELSE "none" IN
    IF ResponseTruthy(resp) /\ resp.status_code = 401
    THEN ApiValue("auth_error", TRUE, 401, error_detail)
    ELSE ApiValue("http_error", TRUE,
                  IF ResponseTruthy(resp) THEN resp.status_code ELSE 500, error_detail)

\* The client sending its request although it was given no token.
call_spring_api_SendsWithoutToken(url, method, path, jwt_token, resp) ==
    LET req == << [method |-> method, path |-> path, authorization |-> <<"Bearer", jwt_token>>] >> IN
    IF url = None THEN Returned(ApiValue("url_unset", TRUE, NoAnswer, "none"), << >>)
    ELSE IF method \notin {"POST", "GET", "PUT", "DELETE"}
         THEN Returned(ApiValue("unsupported_method", TRUE, NoAnswer, "none"), << >>)
    ELSE CASE resp.kind = "conn_refused" -> Returned(ApiValue("unreachable", TRUE, 503, "none"), req)
           [] resp.kind = "timeout" -> Returned(ApiValue("unknown_error", TRUE, 500, "none"), req)
           [] resp.kind = "request_failed" -> Returned(ApiValue("unknown_error", TRUE, 500, "none"), << >>)
           [] resp.status_code = 204 -> Returned(ApiValue("no_content", FALSE, 204, "none"), req)
           [] resp.status_code >= 400 -> Returned(HTTPErrorValue(resp), req)
           [] resp.body # "json" -> Returned(ApiValue("parse_failure", TRUE, resp.status_code, resp.body), req)
           [] OTHER -> Returned(ApiValue("json", FALSE, NoAnswer, "none"), req)

\* utils/api_caller.py: the client of the task tools.
call_spring_api(url, method, path, jwt_token, resp) ==
    LET req == << [method |-> method, path |-> path, authorization |-> <<"Bearer", jwt_token>>] >> IN
    IF url = None THEN Returned(ApiValue("url_unset", TRUE, NoAnswer, "none"), << >>)
    ELSE IF jwt_token = None THEN Returned(ApiValue("jwt_required", TRUE, NoAnswer, "none"), << >>)
    ELSE IF method \notin {"POST", "GET", "PUT", "DELETE"}
         THEN Returned(ApiValue("unsupported_method", TRUE, NoAnswer, "none"), << >>)
    ELSE CASE resp.kind = "conn_refused" -> Returned(ApiValue("unreachable", TRUE, 503, "none"), req)
           [] resp.kind = "timeout" -> Returned(ApiValue("unknown_error", TRUE, 500, "none"), req)
           [] resp.kind = "request_failed" -> Returned(ApiValue("unknown_error", TRUE, 500, "none"), << >>)
           [] resp.status_code = 204 -> Returned(ApiValue("no_content", FALSE, 204, "none"), req)
           [] resp.status_code >= 400 -> Returned(HTTPErrorValue(resp), req)
           [] resp.body # "json" -> Returned(ApiValue("parse_failure", TRUE, resp.status_code, resp.body), req)
           [] OTHER -> Returned(ApiValue("json", FALSE, NoAnswer, "none"), req)

\* The functions decorated as tools in project_tools.py and task_tools.py.
ToolFunctions == tools \cup {"delete_task"}

\* main.py: {**tool_args, "jwt_token": jwt_token}; the run's token takes
\* the place of one among the arguments of the proposal.
CombinedArgs(tool_args, jwt_token) ==
    [args |-> tool_args.args, request_user_id |-> tool_args.request_user_id, jwt_token |-> jwt_token]

\* The identity parameters a tool function receives from the combined
\* arguments: the signature of no tool declares jwt_token; the task tools
\* declare request_user_id, the project tools do not.
ToolParameters(name, combined_args) ==
    IF name \in ProjectTools
    THEN [jwt_token |-> None, request_user_id |-> None]
    ELSE [jwt_token |-> None, request_user_id |-> combined_args.request_user_id]

\* A tool that skips the check of its arguments against the schema.
RunTool_SkipsValidation(url, name, combined_args, env) ==
    IF name \in {"update_project", "update_task"} /\ combined_args.args = "required_only"
    THEN Returned("error_dict", << >>)
    ELSE IF name \in ProjectTools THEN _call_spring_api(url, ToolMethod(name), ToolPath(name), env)
    ELSE Raised("TypeError", << >>)

\* What invoking a tool function does.  args is "valid", "required_only"
\* (valid, the required arguments alone) or "invalid" (rejected by the
\* tool's argument schema).  A task tool calls call_spring_api with the
\* keyword user_id_for_request, which that function does not take.
RunTool(url, name, combined_args, env) ==
    IF combined_args.args = "invalid" THEN Raised("ValidationError", << >>)
    ELSE IF name \in {"update_project", "update_task"} /\ combined_args.args = "required_only"
         THEN Returned("error_dict", << >>)
    ELSE IF name \in ProjectTools THEN _call_spring_api(url, ToolMethod(name), ToolPath(name), env)
    ELSE Raised("TypeError", << >>)

\* The lookup of a name outside tool_map answered by a backend request.
InvokeTool_UnknownDispatches(url, name, combined_args, env) ==
    IF combined_args.args = "invalid" THEN Raised("ValidationError", << >>)
    ELSE IF name \in ProjectTools \/ name \notin DOMAIN tool_map
         THEN _call_spring_api(url, ToolMethod(name), ToolPath(name), env)
    ELSE Raised("TypeError", << >>)

\* What tool_map[tool_name].invoke(combined_args) does for one proposed call.
InvokeTool(url, name, combined_args, env) ==
    IF name \notin DOMAIN tool_map THEN Raised("KeyError", << >>)
    ELSE RunTool(url, name, combined_args, env)

\* ---------------------------------------------------------------- state
VARIABLES
    request,             \* the /chat request being served
    SPRING_BACKEND_URL,  \* the backend address of the process, None when unset
    keepsExtraKeys,      \* whether the graph runtime keeps input keys that AgentState does not declare
    recursion_limit,     \* the step limit of the graph runtime for this run
    batch_limit,         \* the most tool calls the language model proposes in one answer
    pc,                  \* "request", a graph node, "END", "except", "done"
    state,               \* the AgentState of the run
    steps,               \* graph steps executed in the run
    exception,           \* the exception that left langgraph_app.invoke, None if none
    db,                  \* the chat_messages table, in insertion order
    http_response,            \* the HTTP answer of the handler
    attempts,            \* ids of the tool calls call_tool invoked, in order
    http,                \* HTTP requests sent to the backend, in order
    probe,               \* the inputs of one direct invocation of a tool or of a client
    outcome,             \* what that invocation did
    runs                 \* the runs served at the same time, each with a state of its own

vars == <<request, SPRING_BACKEND_URL, keepsExtraKeys, recursion_limit, batch_limit, pc, state, steps, exception, db, http_response, attempts, http, probe, outcome, runs>>

Nodes == {"call_model", "call_tool", "ask_for_clarification"}

NoResp == [kind |-> "none", status_code |-> NoAnswer, body |-> "none"]
NoProbe == [kind |-> "none", name |-> None, args |-> None, request_user_id |-> None,
            model_jwt |-> None, user_id |-> None, jwt_token |-> None, env |-> None,
            method |-> None, resp |-> NoResp]
NoOutcome == [result |-> Returned(None, << >>),
              received |-> [jwt_token |-> None, request_user_id |-> None]]

\* state.py: the keys AgentState declares.
AgentState == {"input", "tool_calls", "chat_history", "tool_output", "agent_response", "clarification_needed"}

NoResponse == [status_code |-> 0, body |-> NoText]
EmptyState == [input |-> NoText, tool_calls |-> << >>, chat_history |-> << >>, tool_output |-> << >>,
               agent_response |-> NoText, clarification_needed |-> FALSE,
               user_id |-> None, jwt_token |-> None]

\* api.py: the token of an Authorization header "Bearer <token>".
JwtOf(auth_header) ==
    IF Len(auth_header) >= 2 /\ auth_header[1] = "Bearer" THEN auth_header[2] ELSE None

\* api.py: the initial state handed to the graph; state.get of a key the
\* runtime did not keep is None.
initial_state(req, keeps) ==
    [input |-> req.user_input,
     chat_history |-> LoadHistory(req.chat_history),
     tool_calls |-> << >>,
     tool_output |-> << >>,
     agent_response |-> NoText,
     clarification_needed |-> FALSE,
     user_id |-> IF keeps THEN req.user_id ELSE None,
     jwt_token |-> IF keeps THEN JwtOf(req.auth_header) ELSE None]

\* The process before a request is served: the request drawn with one of
\* the given histories, the run bounded by limit steps and width calls.
InitWith(histories, limit, width) ==
    /\ request \in [user_id : UserIds, auth_header : AuthHeaders,
                    user_input : {UserInput}, chat_history : histories]
    /\ SPRING_BACKEND_URL \in {None, "http://backend"}
    /\ keepsExtraKeys \in BOOLEAN
    /\ recursion_limit = limit
    /\ batch_limit = width
    /\ pc = "request"
    /\ state = EmptyState
    /\ steps = 0
    /\ exception = None
    /\ db = << >>
    /\ http_response = NoResponse
    /\ attempts = << >>
    /\ http = << >>
    /\ probe = NoProbe
    /\ outcome = NoOutcome
    /\ runs = << >>

Init == InitWith(PriorHistories, RecursionLimit, MaxBatch)

\* ---------------------------------------------------------------- /chat
ChatMessage(uid, sender, content) == [user_id |-> uid, sender |-> sender, content |-> content]

\* api.py: user_id missing -> 400.
ChatReject400 ==
    /\ pc = "request"
    /\ request.user_id = None
    /\ http_response' = [status_code |-> 400, body |-> <<"user_id is required">>]
    /\ pc' = "done"
    /\ UNCHANGED <<request, SPRING_BACKEND_URL, keepsExtraKeys, recursion_limit, batch_limit, state, steps, exception, db, attempts, http, probe, outcome, runs>>

\* The handler storing the user's message before it looks for the token.
ChatReject401_StoresFirst ==
    /\ pc = "request"
    /\ request.user_id # None
    /\ JwtOf(request.auth_header) = None
    /\ db' = Append(db, ChatMessage(request.user_id, "user", request.user_input))
    /\ http_response' = [status_code |-> 401, body |-> <<"JWT token is required for this operation.">>]
    /\ pc' = "done"
    /\ UNCHANGED <<request, SPRING_BACKEND_URL, keepsExtraKeys, recursion_limit, batch_limit, state, steps, exception, attempts, http, probe, outcome, runs>>

\* api.py: no bearer token -> 401.
ChatReject401 ==
    /\ pc = "request"
    /\ request.user_id # None
    /\ JwtOf(request.auth_header) = None
    /\ http_response' = [status_code |-> 401, body |-> <<"JWT token is required for this operation.">>]
    /\ pc' = "done"
    /\ UNCHANGED <<request, SPRING_BACKEND_URL, keepsExtraKeys, recursion_limit, batch_limit, state, steps, exception, db, attempts, http, probe, outcome, runs>>

\* api.py: the user's message is stored, the history converted, the graph entered.
ChatAccept ==
    /\ pc = "request"
    /\ request.user_id # None
    /\ JwtOf(request.auth_header) # None
    /\ ~LoadRaises(request.chat_history)
    /\ db' = Append(db, ChatMessage(request.user_id, "user", request.user_input))
    /\ state' = initial_state(request, keepsExtraKeys)
    /\ pc' = "call_model"
    /\ UNCHANGED <<request, SPRING_BACKEND_URL, keepsExtraKeys, recursion_limit, batch_limit, steps, exception, http_response, attempts, http, probe, outcome, runs>>

\* api.py: the history conversion raises after the user's message was
\* stored and before the try block: the framework answers 500.
ChatLoadFail ==
    /\ pc = "request"
    /\ request.user_id # None
    /\ JwtOf(request.auth_header) # None
    /\ LoadRaises(request.chat_history)
    /\ db' = Append(db, ChatMessage(request.user_id, "user", request.user_input))
    /\ exception' = "NameError"
    /\ http_response' = [status_code |-> 500, body |-> <<"Internal Server Error">>]
    /\ pc' = "done"
    /\ UNCHANGED <<request, SPRING_BACKEND_URL, keepsExtraKeys, recursion_limit, batch_limit, state, steps, attempts, http, probe, outcome, runs>>

\* ---------------------------------------------------------------- graph
AgentToolCall(id, name, args) == [id |-> id, name |-> name, args |-> args]

\* Calls the language model proposes: a project tool with arguments its
\* schema accepts or rejects, a task tool, and a name outside tool_map.
ProposedCalls == { [name |-> "create_project", args |-> "valid"],
                   [name |-> "create_project", args |-> "invalid"],
                   [name |-> "get_all_tasks", args |-> "valid"],
                   [name |-> "delete_task", args |-> "valid"] }
Batches(width) == UNION { [1..n -> ProposedCalls] : n \in 1..width }

\* The test looking for "?" at the end of the text only.
is_clarification_TrailingOnly(content) ==
    \/ (content # << >> /\ content[Len(content)] = "?")
    \/ \E i \in 1..Len(content) : content[i] \in ClarificationKeywords

\* main.py: "?" in the text, or one of the keywords in the text.
is_clarification(content) ==
    \E i \in 1..Len(content) : content[i] = "?" \/ content[i] \in ClarificationKeywords

\* main.py: the conditional edge taken after call_model.
Route(st) ==
    IF st.tool_calls # << >> THEN "call_tool"
    ELSE IF st.clarification_needed THEN "ask_for_clarification"
    ELSE "END"

\* What llm.invoke can return for a conversation of k messages: a text
\* without tool calls, or at most width tool calls (with fresh ids) and an
\* empty text.
LLMResponses(k, width) ==
    { AIMessage(content, << >>) : content \in ModelTexts }
    \cup { AIMessage(NoText, [i \in 1..Len(batch) |-> AgentToolCall(<<k, i>>, batch[i].name, batch[i].args)]) :
              batch \in Batches(width) }

\* call_model with the Respond branch leaving agent_response as it was.
call_model_KeepsReply(st, response) ==
    LET messages_for_llm == st.chat_history \o <<HumanMessage(st.input)>>
        new_chat_history == messages_for_llm \o <<response>>
    IN IF response.tool_calls # << >>
       THEN [st EXCEPT !.tool_calls = response.tool_calls,
                       !.chat_history = new_chat_history,
                       !.input = NoText]
       ELSE [st EXCEPT !.clarification_needed = is_clarification(response.content),
                       !.chat_history = new_chat_history,
                       !.input = NoText]

\* main.py call_model: the state after the model answered with response.
call_model(st, response) ==
    LET messages_for_llm == st.chat_history \o <<HumanMessage(st.input)>>
        new_chat_history == messages_for_llm \o <<response>>
    IN IF response.tool_calls # << >>
       THEN [st EXCEPT !.tool_calls = response.tool_calls,
                       !.chat_history = new_chat_history,
                       !.input = NoText]
       ELSE [st EXCEPT !.agent_response = response.content,
                       !.clarification_needed = is_clarification(response.content),
                       !.chat_history = new_chat_history,
                       !.input = NoText]

CallModel ==
    /\ pc = "call_model"
    /\ steps < recursion_limit
    /\ \E llm_response \in LLMResponses(Len(state.chat_history) + 1, batch_limit) :
          /\ state' = call_model(state, llm_response)
          /\ pc' = Route(call_model(state, llm_response))
    /\ steps' = steps + 1
    /\ UNCHANGED <<request, SPRING_BACKEND_URL, keepsExtraKeys, recursion_limit, batch_limit, exception, db, http_response, attempts, http, probe, outcome, runs>>

\* main.py call_model, llm.invoke raising (model unreachable, malformed
\* answer): nothing in call_model catches it.
CallModelRaise ==
    /\ pc = "call_model"
    /\ steps < recursion_limit
    /\ exception' = "LLMError"
    /\ pc' = "except"
    /\ UNCHANGED <<request, SPRING_BACKEND_URL, keepsExtraKeys, recursion_limit, batch_limit, state, steps, db, http_response, attempts, http, probe, outcome, runs>>

\* An entry of tool_outputs that does not carry the id of its call.
ToolOutput_LosesId(tool_call, r) ==
    IF r.raised
    THEN [original_tool_call_id |-> NoId, tool_name |-> tool_call.name,
          key |-> "error", value |-> r.value]
    ELSE [original_tool_call_id |-> NoId, tool_name |-> tool_call.name,
          key |-> "result", value |-> r.value]

\* main.py call_tool: one entry of tool_outputs per proposed call.
ToolOutput(tool_call, r) ==
    IF r.raised
    THEN [original_tool_call_id |-> tool_call.id, tool_name |-> tool_call.name,
          key |-> "error", value |-> r.value]
    ELSE [original_tool_call_id |-> tool_call.id, tool_name |-> tool_call.name,
          key |-> "result", value |-> r.value]

\* The loop leaving at the first call that raises.
RunBatch_StopsAtError(current_tool_calls, results) ==
    LET n == Len(current_tool_calls)
        raising == { i \in 1..n : results[i].raised }
        last == IF raising = {} THEN n ELSE CHOOSE i \in raising : \A j \in raising : i <= j
    IN [i \in 1..last |-> ToolOutput(current_tool_calls[i], results[i])]

\* The loop collecting the outputs newest first.
RunBatch_Reversed(current_tool_calls, results) ==
    LET n == Len(current_tool_calls)
    IN [i \in 1..n |-> ToolOutput(current_tool_calls[n + 1 - i], results[n + 1 - i])]

\* main.py call_tool: the loop over the proposed calls; results[i] is what
\* invoking the i-th call did.
RunBatch(current_tool_calls, results) ==
    [i \in 1..Len(current_tool_calls) |-> ToolOutput(current_tool_calls[i], results[i])]

\* Python truth value of a tool's return value.
Truthy(v) == v \notin {"empty", None}

\* main.py: output_item.get("result") or output_item.get("error"), as JSON.
ToolResultContent(output_item) ==
    LET result == IF output_item.key = "result" THEN output_item.value ELSE None
        error == IF output_item.key = "error" THEN output_item.value ELSE None
        tool_result_content == IF Truthy(result) THEN result ELSE error
    IN <<"json", IF tool_result_content = None THEN "null" ELSE tool_result_content>>

AnyError(tool_outputs) == \E i \in 1..Len(tool_outputs) : tool_outputs[i].key = "error"

RECURSIVE Flatten(_)
Flatten(seqs) == IF seqs = << >> THEN << >> ELSE Head(seqs) \o Flatten(Tail(seqs))

\* call_tool with the missing-identity branch starting the history anew.
call_tool_ReplacesHistory(st, results) ==
    IF st.user_id = None
    THEN [st EXCEPT !.agent_response = MissingUserIdMessage,
                    !.tool_output = << >>,
                    !.chat_history = <<AIMessage(MissingUserIdMessage, << >>)>>]
    ELSE LET tool_outputs == RunBatch(st.tool_calls, results)
             tool_results_for_history ==
                 [i \in 1..Len(tool_outputs) |->
                     ToolMessage(ToolResultContent(tool_outputs[i]),
                                 tool_outputs[i].original_tool_call_id,
                                 tool_outputs[i].tool_name)]
         IN [st EXCEPT !.tool_output = tool_outputs,
                       !.chat_history = st.chat_history \o tool_results_for_history,
                       !.tool_calls = << >>,
                       !.agent_response = IF AnyError(tool_outputs) THEN ToolErrorReply
                                          ELSE ToolSuccessReply,
                       !.clarification_needed = FALSE]

\* main.py call_tool: the state after the step; results is what invoking
\* each proposed call did (unused when user_id is missing).
call_tool(st, results) ==
    IF st.user_id = None
    THEN [st EXCEPT !.agent_response = MissingUserIdMessage,
                    !.tool_output = << >>,
                    !.chat_history = st.chat_history \o <<AIMessage(MissingUserIdMessage, << >>)>>]
    ELSE LET tool_outputs == RunBatch(st.tool_calls, results)
             tool_results_for_history ==
                 [i \in 1..Len(tool_outputs) |->
                     ToolMessage(ToolResultContent(tool_outputs[i]),
                                 tool_outputs[i].original_tool_call_id,
                                 tool_outputs[i].tool_name)]
         IN [st EXCEPT !.tool_output = tool_outputs,
                       !.chat_history = st.chat_history \o tool_results_for_history,
                       !.tool_calls = << >>,
                       !.agent_response = IF AnyError(tool_outputs) THEN ToolErrorReply
                                          ELSE ToolSuccessReply,
                       !.clarification_needed = FALSE]

\* What invoking each call of the batch can do, over the backend's outcomes.
BatchResults(st) ==
    LET n == Len(st.tool_calls)
        combined_args(i) == [args |-> st.tool_calls[i].args, jwt_token |-> st.jwt_token]
        outcomes(i) == { InvokeTool(SPRING_BACKEND_URL, st.tool_calls[i].name, combined_args(i), env) :
                            env \in BackendOutcomes }
    IN { results \in [1..n -> UNION { outcomes(i) : i \in 1..n }] :
            \A i \in 1..n : results[i] \in outcomes(i) }

\* main.py call_tool, user_id missing from the state: early return, no
\* call is invoked.
CallToolNoUser ==
    /\ pc = "call_tool"
    /\ steps < recursion_limit
    /\ state.user_id = None
    /\ state' = call_tool(state, << >>)
    /\ pc' = "call_model"
    /\ steps' = steps + 1
    /\ UNCHANGED <<request, SPRING_BACKEND_URL, keepsExtraKeys, recursion_limit, batch_limit, exception, db, http_response, attempts, http, probe, outcome, runs>>

\* main.py call_tool, the batch executed; the edge call_tool -> call_model
\* is unconditional.
CallToolExecute ==
    /\ pc = "call_tool"
    /\ steps < recursion_limit
    /\ state.user_id # None
    /\ \E results \in BatchResults(state) :
          /\ state' = call_tool(state, results)
          /\ attempts' = attempts \o [i \in 1..Len(call_tool(state, results).tool_output) |->
                                         call_tool(state, results).tool_output[i].original_tool_call_id]
          /\ http' = http \o Flatten([i \in 1..Len(results) |-> results[i].requests])
    /\ pc' = "call_model"
    /\ steps' = steps + 1
    /\ UNCHANGED <<request, SPRING_BACKEND_URL, keepsExtraKeys, recursion_limit, batch_limit, exception, db, http_response, probe, outcome, runs>>

\* ask_for_clarification losing the reply.
ask_for_clarification_ClearsReply(st) ==
    [st EXCEPT !.agent_response = NoText, !.clarification_needed = TRUE]

\* main.py ask_for_clarification: the state after the step.
ask_for_clarification(st) ==
    [st EXCEPT !.agent_response = st.agent_response, !.clarification_needed = TRUE]

\* main.py ask_for_clarification.
AskForClarification ==
    /\ pc = "ask_for_clarification"
    /\ steps < recursion_limit
    /\ state' = ask_for_clarification(state)
    /\ pc' = "END"
    /\ steps' = steps + 1
    /\ UNCHANGED <<request, SPRING_BACKEND_URL, keepsExtraKeys, recursion_limit, batch_limit, exception, db, http_response, attempts, http, probe, outcome, runs>>

\* The graph runtime: a node is due but the step limit is used up.
GraphRecursion ==
    /\ pc \in Nodes
    /\ steps >= recursion_limit
    /\ exception' = "GraphRecursionError"
    /\ pc' = "except"
    /\ UNCHANGED <<request, SPRING_BACKEND_URL, keepsExtraKeys, recursion_limit, batch_limit, state, steps, db, http_response, attempts, http, probe, outcome, runs>>

\* api.py: the run returned; the reply is stored and sent.
ChatRespond ==
    /\ pc = "END"
    /\ LET response_content ==
             IF state.agent_response # NoText THEN state.agent_response
             ELSE IF state.tool_output # << >> THEN <<"tool-run-complete", "json(tool_output)">>
             ELSE NoResponseReply
       IN /\ db' = Append(db, ChatMessage(request.user_id, "bot", response_content))
          /\ http_response' = [status_code |-> 200, body |-> response_content]
    /\ pc' = "done"
    /\ UNCHANGED <<request, SPRING_BACKEND_URL, keepsExtraKeys, recursion_limit, batch_limit, state, steps, exception, attempts, http, probe, outcome, runs>>

\* The handler storing the error text as a bot message.
ChatFail_StoresError ==
    /\ pc = "except"
    /\ db' = Append(db, ChatMessage(request.user_id, "bot", <<"agent-run-error", exception>>))
    /\ http_response' = [status_code |-> 500, body |-> <<"agent-run-error", exception>>]
    /\ pc' = "done"
    /\ UNCHANGED <<request, SPRING_BACKEND_URL, keepsExtraKeys, recursion_limit, batch_limit, state, steps, exception, attempts, http, probe, outcome, runs>>

\* api.py: an exception left the run; the handler answers 500 with its text.
ChatFail ==
    /\ pc = "except"
    /\ http_response' = [status_code |-> 500, body |-> <<"agent-run-error", exception>>]
    /\ pc' = "done"
    /\ UNCHANGED <<request, SPRING_BACKEND_URL, keepsExtraKeys, recursion_limit, batch_limit, state, steps, exception, db, attempts, http, probe, outcome, runs>>

Next ==
    \/ ChatReject400
    \/ ChatReject401
    \/ ChatAccept
    \/ CallModel
    \/ CallModelRaise
    \/ CallToolNoUser
    \/ CallToolExecute
    \/ AskForClarification
    \/ GraphRecursion
    \/ ChatRespond
    \/ ChatFail

Spec == Init /\ [][Next]_vars

\* The handler's entry alone (validation, storing the user's message, the
\* history conversion), over histories of at most MaxHistory records: the
\* records convert_lc_message_to_chm makes of the sample messages, the
\* 'user'/'bot' records of the stored log, and a tool record without name.
SampleMessages ==
    { HumanMessage(<<"hi">>),
      AIMessage(<<"done">>, << >>),
      AIMessage(NoText, << [id |-> <<1, 1>>, name |-> "create_project", args |-> "valid"] >>),
      ToolMessage(<<"json", "data">>, <<1, 1>>, "create_project"),
      SystemMessage(<<"directive">>) }
LoadRecords ==
    { convert_lc_message_to_chm(m) : m \in SampleMessages }
    \cup { ChatHistoryMessage("user", <<"hello">>, << >>, NoId, None),
           ChatHistoryMessage("bot", <<"done">>, << >>, NoId, None),
           ChatHistoryMessage("tool", <<"json", "data">>, << >>, NoId, None) }
LoadHistories == UNION { [1..n -> LoadRecords] : n \in 0..MaxHistory }
InitLoad == InitWith(LoadHistories, RecursionLimit, MaxBatch)
NextLoad ==
    \/ ChatReject400
    \/ ChatReject401
    \/ ChatAccept
    \/ ChatLoadFail
SpecLoad == InitLoad /\ [][NextLoad]_vars

\* One direct invocation of a tool function with the combined arguments of a
\* run (identity "7"/"tok"), or of call_spring_api, over every backend
\* outcome; the arguments of the proposal may name an identity of their own.
ToolProbes ==
    [kind : {"tool"}, name : ToolFunctions, args : {"valid", "required_only", "invalid"},
     request_user_id : {None, "9"}, model_jwt : {None, "forged"},
     user_id : {"7"}, jwt_token : {"tok"},
     env : BackendOutcomes \cup {"ok_no_content"}, method : {None}, resp : {NoResp}]
ClientProbes ==
    [kind : {"client"}, name : {None}, args : {None}, request_user_id : {None}, model_jwt : {None},
     user_id : {"7"}, jwt_token : {None, "tok"}, env : {None},
     method : {"POST", "GET", "PUT", "DELETE", "PATCH"}, resp : Responses]
InitTools ==
    /\ probe \in ToolProbes \cup ClientProbes
    /\ SPRING_BACKEND_URL \in {None, "http://backend"}
    /\ request = [user_id |-> "7", auth_header |-> <<"Bearer", "tok">>,
                  user_input |-> UserInput, chat_history |-> << >>]
    /\ keepsExtraKeys = TRUE
    /\ recursion_limit = RecursionLimit
    /\ batch_limit = MaxBatch
    /\ pc = probe.kind
    /\ state = EmptyState
    /\ steps = 0
    /\ exception = None
    /\ db = << >>
    /\ http_response = NoResponse
    /\ attempts = << >>
    /\ http = << >>
    /\ outcome = NoOutcome
    /\ runs = << >>

\* A tool function invoked with the combined arguments.
ToolInvoke ==
    /\ pc = "tool"
    /\ LET tool_args == [args |-> probe.args, request_user_id |-> probe.request_user_id,
                         jwt_token |-> probe.model_jwt]
           combined_args == CombinedArgs(tool_args, probe.jwt_token)
           result == RunTool(SPRING_BACKEND_URL, probe.name, combined_args, probe.env)
       IN /\ outcome' = [result |-> result, received |-> ToolParameters(probe.name, combined_args)]
          /\ http' = result.requests
    /\ pc' = "done"
    /\ UNCHANGED <<request, SPRING_BACKEND_URL, keepsExtraKeys, recursion_limit, batch_limit, state, steps, exception, db, http_response, attempts, probe, runs>>

\* call_spring_api called with a method, a path and a token.
ClientCall ==
    /\ pc = "client"
    /\ LET result == call_spring_api(SPRING_BACKEND_URL, probe.method, "/tasks/{id}", probe.jwt_token, probe.resp)
       IN /\ outcome' = [result |-> result, received |-> [jwt_token |-> probe.jwt_token, request_user_id |-> None]]
          /\ http' = result.requests
    /\ pc' = "done"
    /\ UNCHANGED <<request, SPRING_BACKEND_URL, keepsExtraKeys, recursion_limit, batch_limit, state, steps, exception, db, http_response, attempts, probe, runs>>

NextTools ==
    \/ ToolInvoke
    \/ ClientCall
SpecTools == InitTools /\ [][NextTools]_vars

\* Two requests served at the same time (the handler awaits nothing while
\* a run executes, so steps of the two runs interleave only if the server
\* runs them in parallel; every interleaving is allowed here).  Each call of
\* langgraph_app.invoke works on the initial_state built for its request;
\* the module globals of main.py (llm, tools, tool_map, SYSTEM_PROMPT, app)
\* are only read.  The language model here answers with a text, a question
\* or one call.
PairRequests ==
    << [user_id |-> "7", auth_header |-> <<"Bearer", "tok">>, user_input |-> <<"hi">>, chat_history |-> << >>],
       [user_id |-> "8", auth_header |-> <<"Bearer", "tok8">>, user_input |-> <<"hello">>, chat_history |-> << >>] >>
PairResponses(k) ==
    { AIMessage(<<"done">>, << >>),
      AIMessage(<<"which", "?">>, << >>),
      AIMessage(NoText, << AgentToolCall(<<k, 1>>, "create_project", "valid") >>) }

\* One executed node of a run, as an entry of the run's log.
Executes(node, response, results) == [node |-> node, response |-> response, results |-> results]

\* The state of a run after a node executed.
StepState(st, e) ==
    CASE e.node = "call_model" -> call_model(st, e.response)
      [] e.node = "call_tool" -> call_tool(st, e.results)
      [] OTHER -> ask_for_clarification(st)

\* The node that follows.
StepNext(e, st) ==
    CASE e.node = "call_model" -> Route(st)
      [] e.node = "call_tool" -> "call_model"
      [] OTHER -> "END"

\* A node whose returned history lands in the state of every run.
PairStep_SharedHistory(rs, r, e) ==
    LET st == StepState(rs[r].state, e) IN
    [q \in DOMAIN rs |->
        IF q = r
        THEN [rs[r] EXCEPT !.state = st, !.pc = StepNext(e, st), !.steps = @ + 1, !.log = Append(@, e)]
        ELSE [rs[q] EXCEPT !.state.chat_history = st.chat_history]]

\* A node of run r executes: it reads and replaces the state of its own
\* invocation only.
PairStep(rs, r, e) ==
    LET st == StepState(rs[r].state, e) IN
    [rs EXCEPT ![r] = [rs[r] EXCEPT !.state = st, !.pc = StepNext(e, st), !.steps = @ + 1, !.log = Append(@, e)]]

InitPair ==
    /\ SPRING_BACKEND_URL \in {None, "http://backend"}
    /\ keepsExtraKeys \in BOOLEAN
    /\ runs = [r \in DOMAIN PairRequests |->
                  [request |-> PairRequests[r], pc |-> "call_model",
                   state |-> initial_state(PairRequests[r], keepsExtraKeys),
                   steps |-> 0, log |-> << >>]]
    /\ request = PairRequests[1]
    /\ recursion_limit = RecursionLimit
    /\ batch_limit = 1
    /\ pc = "pair"
    /\ state = EmptyState
    /\ steps = 0
    /\ exception = None
    /\ db = << >>
    /\ http_response = NoResponse
    /\ attempts = << >>
    /\ http = << >>
    /\ probe = NoProbe
    /\ outcome = NoOutcome

PairUnchanged ==
    UNCHANGED <<request, SPRING_BACKEND_URL, keepsExtraKeys, recursion_limit, batch_limit, pc, state, steps, exception, db, http_response, attempts, http, probe, outcome>>

PairCallModel ==
    /\ pc = "pair"
    /\ \E r \in DOMAIN runs :
          /\ runs[r].pc = "call_model"
          /\ runs[r].steps < recursion_limit
          /\ \E llm_response \in PairResponses(Len(runs[r].state.chat_history) + 1) :
                runs' = PairStep(runs, r, Executes("call_model", llm_response, << >>))
    /\ PairUnchanged

PairCallTool ==
    /\ pc = "pair"
    /\ \E r \in DOMAIN runs :
          /\ runs[r].pc = "call_tool"
          /\ runs[r].steps < recursion_limit
          /\ \E results \in (IF runs[r].state.user_id = None THEN {<< >>} ELSE BatchResults(runs[r].state)) :
                runs' = PairStep(runs, r, Executes("call_tool", AIMessage(NoText, << >>), results))
    /\ PairUnchanged

PairAskForClarification ==
    /\ pc = "pair"
    /\ \E r \in DOMAIN runs :
          /\ runs[r].pc = "ask_for_clarification"
          /\ runs[r].steps < recursion_limit
          /\ runs' = PairStep(runs, r, Executes("ask_for_clarification", AIMessage(NoText, << >>), << >>))
    /\ PairUnchanged

NextPair ==
    \/ PairCallModel
    \/ PairCallTool
    \/ PairAskForClarification
SpecPair == InitPair /\ [][NextPair]_vars

\* Longer runs with a model that proposes one call at a time: one step more
\* than in Spec, so that a second batch and a question after a batch fit.
DeepLimit == RecursionLimit + 1
InitDeep == InitWith(PriorHistories, DeepLimit, 1)
SpecDeep == InitDeep /\ [][Next]_vars

\* Sequential turns against one store: when a request has been answered the
\* next POST /chat arrives; the store keeps its rows, everything else of
\* the handler starts afresh. Turns start while the store holds fewer than
\* MaxStored rows.
InitTurn == InitWith(PriorHistories, RecursionLimit, 1)

NewTurn ==
    /\ pc = "done"
    /\ Len(db) < MaxStored
    /\ request' \in [user_id : UserIds, auth_header : AuthHeaders,
                     user_input : {UserInput}, chat_history : PriorHistories]
    /\ pc' = "request"
    /\ state' = EmptyState
    /\ steps' = 0
    /\ exception' = None
    /\ http_response' = NoResponse
    /\ attempts' = << >>
    /\ http' = << >>
    /\ UNCHANGED <<SPRING_BACKEND_URL, keepsExtraKeys, recursion_limit, batch_limit, db, probe, outcome, runs>>

NextTurn ==
    \/ Next
    \/ NewTurn

SpecTurn == InitTurn /\ [][NextTurn]_vars

\* ---------------------------------------------------------------- claims
\* The turn was accepted by the handler (its user message is stored).
Accepted == db # << >>
\* Number of messages the run started with.
PriorLen == Len(LoadHistory(request.chat_history))
\* A call_tool step that executes a batch is being taken.
BatchStep == pc = "call_tool" /\ state.user_id # None /\ steps' = steps + 1
\* The run's reply reached the caller.
Replied == pc = "done" /\ http_response.status_code = 200

\* C1: once a call of an executed batch has produced an error, the run is
\* over (no call_model, no call_tool is due) and the reply is the apology
\* text set by call_tool.
C1_ShortCircuitOnToolError ==
    AnyError(state.tool_output) =>
        /\ pc \in {"END", "done"}
        /\ state.agent_response = ToolErrorReply
        /\ (pc = "done" => http_response.body = ToolErrorReply)

\* C2: a call for which the remote operation client reported a failure (the
\* value with an 'error' field) is recorded by call_tool as an errored entry,
\* so the batch counts as containing an error.
C2_ClientFailureIsError ==
    \A i \in 1..Len(state.tool_output) :
        state.tool_output[i].value = "error_dict" => state.tool_output[i].key = "error"

\* C3: a run in which every reasoning step proposed tool calls and every
\* batch succeeded ends, at the cycle bound, with a reply to the caller (the
\* fixed fallback text), not with a failure.
C3_CycleBoundFallbackReply ==
    ( /\ pc = "done"
      /\ Accepted
      /\ steps >= recursion_limit
      /\ \A i \in (PriorLen + 1)..Len(state.chat_history) :
            /\ state.chat_history[i].type = "ai" => state.chat_history[i].tool_calls # << >>
            /\ state.chat_history[i].type = "tool" => state.chat_history[i].content = <<"json", "data">> )
    => /\ http_response.status_code = 200
       /\ http_response.body # NoText

\* C4: a batch whose calls all succeeded is followed by call_model, and when
\* that reasoning step answers with a text, the reply the caller gets is that
\* text: non-empty, and never the placeholder call_tool wrote.
C4_SuccessReturnsToModel ==
    /\ [][ (BatchStep /\ ~AnyError(state'.tool_output)) => pc' = "call_model" ]_vars
    /\ [] ( Replied =>
              /\ http_response.body # ToolSuccessReply
              /\ http_response.body # NoText
              /\ LET h == state.chat_history
                     last == h[Len(h)]
                 IN ( /\ state.tool_output # << >>
                      /\ ~AnyError(state.tool_output)
                      /\ last.type = "ai" /\ last.tool_calls = << >> /\ last.content # NoText
                      /\ h[Len(h) - 2].type = "tool" )
                    => http_response.body = last.content )

\* C4 witness: a reply delivered after a fully successful batch and a text answer.
C4_Witness ==
    /\ Replied
    /\ state.tool_output # << >>
    /\ ~AnyError(state.tool_output)
    /\ state.chat_history[Len(state.chat_history)].content = <<"done">>
    /\ state.chat_history[Len(state.chat_history) - 2].type = "tool"
    /\ http_response.body = <<"done">>

\* C5: a turn accepted with a user id and a credential always ends with a
\* reply string for the caller (HTTP 200), never with an exception or an
\* HTTP error.
C5_NeverRaisesPastRun ==
    (pc = "done" /\ Accepted) => http_response.status_code = 200

\* C6: when the reasoning capability fails inside call_model, the step ends
\* as a Respond: the run goes to END with a non-empty apology reply and
\* clarification_needed false, and no exception leaves the step.
C6_ModelFailureIsRespond ==
    [][ (pc = "call_model" /\ exception' = "LLMError") =>
            /\ pc' = "END"
            /\ state'.agent_response # NoText
            /\ ~state'.clarification_needed ]_vars

\* C7: once call_tool has found the user id missing, the run is over: no
\* reasoning step and no call_tool step is due, and the reply is the
\* identity-required message.
C7_MissingIdentityEndsRun ==
    (\E i \in 1..Len(state.chat_history) :
        state.chat_history[i] = AIMessage(MissingUserIdMessage, << >>))
    => /\ pc \in {"END", "done"}
       /\ state.agent_response = MissingUserIdMessage
       /\ (pc = "done" => http_response.body = MissingUserIdMessage)

\* C8: at every call_tool step the user id and the credential call_tool
\* reads from the state are those the handler put into the initial state.
C8_IdentityPassedThrough ==
    pc = "call_tool" =>
        /\ state.user_id = request.user_id
        /\ state.jwt_token = JwtOf(request.auth_header)

\* C9: a call_tool step that executes a batch of N calls attempts all N and
\* appends exactly N tool messages, whichever calls fail.
C9_SiblingIsolation ==
    [][ BatchStep =>
            LET N == Len(state.tool_calls)
                h == state.chat_history
            IN /\ Len(state'.chat_history) = Len(h) + N
               /\ \A i \in 1..N : state'.chat_history[Len(h) + i].type = "tool"
               /\ SubSeq(state'.chat_history, 1, Len(h)) = h
               /\ Len(state'.tool_output) = N
               /\ Len(attempts') = Len(attempts) + N ]_vars

\* C9 witness: a batch whose first call raised and whose second call returned.
C9_Witness ==
    /\ pc = "call_model"
    /\ Len(state.tool_output) = 2
    /\ state.tool_output[1].key = "error"
    /\ state.tool_output[2].key = "result"
    /\ state.chat_history[Len(state.chat_history)].type = "tool"
    /\ state.chat_history[Len(state.chat_history) - 1].type = "tool"

\* C10: the tool messages a call_tool step appends are in proposal order,
\* the i-th carrying the id and the name of the i-th proposed call, and the
\* calls are invoked in proposal order.
C10_OrderPreserved ==
    [][ BatchStep =>
            LET N == Len(state.tool_calls)
                h == state.chat_history
            IN /\ Len(state'.chat_history) >= Len(h) + N
               /\ Len(attempts') >= Len(attempts) + N
               /\ \A i \in 1..N :
                     /\ state'.chat_history[Len(h) + i].tool_call_id = state.tool_calls[i].id
                     /\ state'.chat_history[Len(h) + i].name = state.tool_calls[i].name
                     /\ attempts'[Len(attempts) + i] = state.tool_calls[i].id ]_vars

\* C10 witness: two calls with different names executed, their messages in
\* proposal order.
C10_Witness ==
    LET h == state.chat_history
    IN /\ Len(state.tool_output) = 2
       /\ Len(attempts) = 2
       /\ h[Len(h)].type = "tool" /\ h[Len(h) - 1].type = "tool"
       /\ h[Len(h) - 1].name # h[Len(h)].name
       /\ h[Len(h) - 1].tool_call_id = attempts[1]
       /\ h[Len(h)].tool_call_id = attempts[2]
       /\ h[Len(h) - 2].tool_calls[1].id = attempts[1]

\* C11: a proposed call whose name is not in tool_map gets an entry of
\* tool_output carrying an error (and a tool message carrying it), the
\* step returns to call_model without an exception, and the step sends at
\* most one backend request per call whose name is in tool_map.
Unknown(tool_calls) == { i \in 1..Len(tool_calls) : tool_calls[i].name \notin DOMAIN tool_map }
C11_UnknownToolIsError ==
    [][ BatchStep =>
          /\ pc' = "call_model"
          /\ exception' = None
          /\ Len(state'.tool_output) = Len(state.tool_calls)
          /\ \A i \in Unknown(state.tool_calls) :
                /\ state'.tool_output[i].original_tool_call_id = state.tool_calls[i].id
                /\ state'.tool_output[i].key = "error"
                /\ state'.chat_history[Len(state.chat_history) + i] =
                      ToolMessage(<<"json", "KeyError">>, state.tool_calls[i].id, state.tool_calls[i].name)
          /\ Len(http') - Len(http) <= Len(state.tool_calls) - Cardinality(Unknown(state.tool_calls)) ]_vars
C11_Witness ==
    /\ SPRING_BACKEND_URL # None
    /\ \E i \in 1..Len(state.tool_output) :
          /\ state.tool_output[i].tool_name = "delete_task"
          /\ state.tool_output[i].key = "error"
          /\ state.tool_output[i].value = "KeyError"
    /\ \E j \in 1..Len(state.tool_output) : state.tool_output[j].key = "result"
    /\ http # << >>

\* C12: every operation name of the known operation set resolves in
\* tool_map, so no executed call naming one of them is answered with the
\* failed lookup.
KnownOperations ==
    { "create_project", "get_all_projects_with_tasks", "get_dashboard_projects",
      "get_single_project_with_tasks", "update_project", "delete_project",
      "create_task", "get_all_tasks", "get_single_task", "update_task", "delete_task",
      "update_task_status", "update_task_tags", "remove_task_tags", "update_task_schedule" }
C12_RegistryComplete ==
    \A i \in 1..Len(state.tool_output) :
        state.tool_output[i].tool_name \in KnownOperations =>
            /\ state.tool_output[i].tool_name \in DOMAIN tool_map
            /\ state.tool_output[i].value # "KeyError"

\* C13: every tool message the run appended to the history carries the
\* id of a tool call proposed by an earlier ai message that the same run
\* appended.
C13_ToolResultsReferProposals ==
    \A k \in (PriorLen + 1)..Len(state.chat_history) :
        state.chat_history[k].type = "tool" =>
            \E j \in (PriorLen + 1)..(k - 1) :
                /\ state.chat_history[j].type = "ai"
                /\ \E c \in 1..Len(state.chat_history[j].tool_calls) :
                      state.chat_history[j].tool_calls[c].id = state.chat_history[k].tool_call_id
C13_Witness ==
    \E k \in (PriorLen + 1)..Len(state.chat_history) :
        /\ state.chat_history[k].type = "tool"
        /\ k > PriorLen + 3

\* C14: a tool record of the prior history whose id no preceding ai
\* record proposed is never taken into the history the run starts with:
\* in every accepted request, each tool message of the loaded history
\* follows an ai message that proposes its id.
C14_StrayToolResultRejected ==
    (pc = "call_model" /\ steps = 0) =>
        \A k \in 1..Len(state.chat_history) :
            state.chat_history[k].type = "tool" =>
                \E j \in 1..(k - 1) :
                    /\ state.chat_history[j].type = "ai"
                    /\ \E c \in 1..Len(state.chat_history[j].tool_calls) :
                          state.chat_history[j].tool_calls[c].id = state.chat_history[k].tool_call_id

\* C15: the history is append-only: in every step the history before the
\* step is a prefix of the history after it.
IsPrefix(s, t) == Len(s) <= Len(t) /\ s = SubSeq(t, 1, Len(s))
C15_HistoryAppendOnly ==
    [][IsPrefix(state.chat_history, state'.chat_history)]_vars
C15_Witness ==
    /\ steps >= 3
    /\ Len(state.chat_history) >= PriorLen + 5
    /\ \E k \in 1..Len(state.chat_history) :
          state.chat_history[k] = AIMessage(MissingUserIdMessage, << >>)

\* C16: a run appends the user's turn as a human message once, in its
\* first call_model; whatever the number of cycles, the history holds at
\* most one human message that the run appended.
HumanAdded ==
    Cardinality({ k \in (PriorLen + 1)..Len(state.chat_history) : state.chat_history[k].type = "human" })
C16_OneHumanMessagePerRun ==
    /\ HumanAdded <= 1
    /\ steps >= 1 => HumanAdded = 1

\* C17: every proposed tool call is consumed exactly once: a step of
\* call_tool leaves no pending tool call, the calls a step of call_tool
\* receives were never handed to call_tool before, and no call id is
\* executed twice.
HandedOver(history, tool_calls) ==
    \E k \in 1..Len(history) :
        /\ history[k] = AIMessage(MissingUserIdMessage, << >>)
        /\ \E j \in 1..(k - 1) : history[j].type = "ai" /\ history[j].tool_calls = tool_calls
C17_ConsumedExactlyOnce ==
    [][ (pc = "call_tool" /\ steps' = steps + 1) =>
           /\ state'.tool_calls = << >>
           /\ ~HandedOver(state.chat_history, state.tool_calls)
           /\ \A i, j \in 1..Len(attempts') : attempts'[i] = attempts'[j] => i = j ]_vars

\* C18 (as stated): a text answer of call_model is classified as a
\* clarification request exactly when its text ends with "?" or contains
\* one of the keywords.
RespondStep ==
    /\ pc = "call_model"
    /\ steps' = steps + 1
    /\ state'.chat_history[Len(state'.chat_history)].tool_calls = << >>
RespondText == state'.chat_history[Len(state'.chat_history)].content
HasKeyword(text) == \E i \in 1..Len(text) : text[i] \in ClarificationKeywords
C18_TrailingMarkOrKeyword ==
    [][ RespondStep =>
          (state'.clarification_needed <=>
              \/ (RespondText # << >> /\ RespondText[Len(RespondText)] = "?")
              \/ HasKeyword(RespondText)) ]_vars

\* C18 (amended): a text answer of call_model is classified as a
\* clarification request exactly when its text contains "?" at any
\* position or contains one of the keywords; the reply is that text.
C18_AnyMarkOrKeyword ==
    [][ RespondStep =>
          /\ state'.clarification_needed <=>
                 ((\E i \in 1..Len(RespondText) : RespondText[i] = "?") \/ HasKeyword(RespondText))
          /\ state'.agent_response = RespondText ]_vars
C18_Witness ==
    /\ state.clarification_needed
    /\ state.chat_history # << >>
    /\ state.chat_history[Len(state.chat_history)] = AIMessage(<<"?", "ok">>, << >>)
    /\ state.agent_response = <<"?", "ok">>

\* C19 (as stated): a run that ended through ask_for_clarification has
\* the question as an ai message of its history, a reply equal to the
\* question, and executed no tool call.
EndedClarifying == pc \in {"END", "done"} /\ exception = None /\ state.clarification_needed
LastMessage == state.chat_history[Len(state.chat_history)]
QuestionIsLast ==
    /\ Len(state.chat_history) > PriorLen
    /\ LastMessage.type = "ai"
    /\ LastMessage.tool_calls = << >>
    /\ LastMessage.content # NoText
    /\ LastMessage.content = state.agent_response
C19_ClarifyingRunsNoTool ==
    EndedClarifying =>
        /\ QuestionIsLast
        /\ pc = "done" => http_response = [status_code |-> 200, body |-> LastMessage.content]
        /\ attempts = << >>

\* C19 (amended): a run that ended through ask_for_clarification has the
\* question as the last message of its history, an ai message without
\* tool calls, a reply equal to the question and no pending tool call;
\* tool calls may have been executed earlier in the run.
C19_ClarifyingEndsOnQuestion ==
    EndedClarifying =>
        /\ QuestionIsLast
        /\ pc = "done" => http_response = [status_code |-> 200, body |-> LastMessage.content]
        /\ state.tool_calls = << >>
C19_Witness ==
    /\ pc = "done"
    /\ state.clarification_needed
    /\ attempts # << >>
    /\ http_response.body = <<"which", "?">>

\* C20: round trip of the history conversion: when the records of a
\* request are what convert_lc_message_to_chm makes of a sequence of
\* messages (human, ai with or without tool calls, tool, system), the
\* handler starts the run with exactly these messages as history.
SampleHistories == UNION { [1..n -> SampleMessages] : n \in 0..MaxHistory }
Serialized(ms) == [i \in 1..Len(ms) |-> convert_lc_message_to_chm(ms[i])]
C20_HistoryRoundTrip ==
    \A ms \in SampleHistories :
        (Accepted /\ request.chat_history = Serialized(ms)) =>
            /\ pc = "call_model"
            /\ state.chat_history = ms

\* C21: the identity a tool body works with is the run's own, never the
\* model's: an executed task tool receives the run's credential and the
\* run's user id as its subject, and the requests it issues are the same
\* whatever identity arguments the proposal carried.
Executed == pc = "done" /\ probe.kind = "tool" /\ probe.args # "invalid"
C21_IdentityInjected ==
    (Executed /\ probe.name \notin ProjectTools) =>
        /\ outcome.received.jwt_token = probe.jwt_token
        /\ outcome.received.request_user_id = probe.user_id
        /\ \A uid \in {None, "9"}, token \in {None, "forged"} :
              RunTool(SPRING_BACKEND_URL, probe.name,
                      CombinedArgs([args |-> probe.args, request_user_id |-> uid, jwt_token |-> token],
                                   probe.jwt_token),
                      probe.env).requests = outcome.result.requests

\* C22: every HTTP request a tool of the run sent to the backend carries
\* an Authorization header (the run's credential as a bearer token).
C22_RequestsCarryCredential ==
    \A i \in 1..Len(http) : http[i].authorization # None

\* C23: a tool of the known operation set, executed with its required
\* arguments against a configured backend that answers, issues exactly
\* one HTTP request, with the method and the path of the operation table
\* (PATCH for update_task_status, update_task_tags, update_task_schedule).
OperationTable ==
    { <<"create_project", "POST", "/projects/new">>,
      <<"get_all_projects_with_tasks", "GET", "/projects/mypage">>,
      <<"get_dashboard_projects", "GET", "/projects/dashboard">>,
      <<"get_single_project_with_tasks", "GET", "/projects/{id}">>,
      <<"update_project", "PUT", "/projects/{id}">>,
      <<"delete_project", "DELETE", "/projects/{id}">>,
      <<"create_task", "POST", "/tasks/new">>,
      <<"get_all_tasks", "GET", "/tasks/all">>,
      <<"get_single_task", "GET", "/tasks/{id}">>,
      <<"update_task", "PUT", "/tasks/{id}">>,
      <<"delete_task", "DELETE", "/tasks/{id}">>,
      <<"update_task_status", "PATCH", "/tasks/{id}/status">>,
      <<"update_task_tags", "PATCH", "/tasks/{id}/tags">>,
      <<"remove_task_tags", "DELETE", "/tasks/{id}/tags">>,
      <<"update_task_schedule", "PATCH", "/tasks/{id}/schedule">> }
C23_OneRequestPerOperation ==
    (/\ pc = "done"
     /\ probe.kind = "tool"
     /\ probe.args = "required_only"
     /\ SPRING_BACKEND_URL # None
     /\ probe.env \in {"ok", "ok_empty_list", "ok_no_content"}) =>
        /\ Len(http) = 1
        /\ <<probe.name, http[1].method, http[1].path>> \in OperationTable

\* C24: a proposed call whose arguments the tool's schema rejects (a
\* status outside the enumeration) is refused before dispatch: its entry
\* of tool_output is an error, and the step sends no request for it.
Refused(tool_calls) == { i \in 1..Len(tool_calls) : tool_calls[i].args = "invalid" }
C24_InvalidStatusRefused ==
    [][ BatchStep =>
          /\ \A i \in Refused(state.tool_calls) :
                /\ state'.tool_output[i].original_tool_call_id = state.tool_calls[i].id
                /\ state'.tool_output[i].key = "error"
          /\ Len(http') - Len(http) <= Len(state.tool_calls) - Cardinality(Refused(state.tool_calls)) ]_vars
C24_Witness ==
    /\ SPRING_BACKEND_URL # None
    /\ Len(state.tool_output) = 2
    /\ state.tool_output[1].key = "error"
    /\ state.tool_output[1].value = "ValidationError"
    /\ state.tool_output[2].key = "result"
    /\ Len(http) = 1

\* C25: the text delivered for a turn is a text of the language model or
\* one of the fixed messages of the program; it is never the text of an
\* exception nor a dump of the tool output.
FixedMessages ==
    { MissingUserIdMessage, ToolErrorReply, ToolSuccessReply, NoResponseReply,
      <<"user_id is required">>, <<"JWT token is required for this operation.">> }
C25_ReplyIsNaturalLanguage ==
    pc = "done" => http_response.body \in (ModelTexts \cup FixedMessages)

\* C26: when the backend answers a call of call_spring_api with a status
\* of 400 or above, the returned error value reports that status and the
\* response body as detail; a 401 yields the authentication-error value.
Answered ==
    /\ pc = "done"
    /\ probe.kind = "client"
    /\ SPRING_BACKEND_URL # None
    /\ probe.jwt_token # None
    /\ probe.method \in {"POST", "GET", "PUT", "DELETE"}
    /\ probe.resp.kind = "response"
C26_ErrorReportsStatus ==
    (Answered /\ probe.resp.status_code >= 400) =>
        /\ ~outcome.result.raised
        /\ outcome.result.value.error
        /\ outcome.result.value.status_code = probe.resp.status_code
        /\ outcome.result.value.detail = probe.resp.body
        /\ probe.resp.status_code = 401 => outcome.result.value.kind = "auth_error"

\* C27: the remote operation clients never raise: whatever the method and
\* the outcome of the transport, call_spring_api and the client of the
\* project tools return a value, and a failure is returned as a value with
\* an 'error' field.
ClientFailed ==
    \/ probe.resp.kind \in {"conn_refused", "timeout", "request_failed"}
    \/ probe.resp.status_code >= 400
    \/ (probe.resp.status_code # 204 /\ probe.resp.body # "json")
C27_ClientsNeverRaise ==
    /\ (pc = "done" /\ probe.kind = "client") =>
          /\ ~outcome.result.raised
          /\ ClientFailed => outcome.result.value.error
    /\ (Executed /\ probe.name \in ProjectTools) =>
          /\ ~outcome.result.raised
          /\ probe.env \in {"conn_refused", "timeout", "http_error", "bad_request"} =>
                outcome.result.value = "error_dict"

\* C28: two runs served at the same time share no mutable state: under
\* every interleaving, the state of each run (history, pending tool
\* calls, reply, identity) is the state that the same nodes with the same
\* answers produce when the run executes alone.
RECURSIVE Alone(_, _)
Alone(st, log) == IF log = << >> THEN st ELSE Alone(StepState(st, Head(log)), Tail(log))
C29_DeleteReportsStatus ==
    /\ (/\ Executed
        /\ probe.name \in {"delete_project", "delete_task"}
        /\ SPRING_BACKEND_URL # None
        /\ probe.env = "ok_no_content") =>
           /\ ~outcome.result.raised
           /\ "error" \notin ValueFields(outcome.result.value)
           /\ "status_code" \in ValueFields(outcome.result.value)
    /\ (/\ Answered
        /\ probe.method = "DELETE"
        /\ probe.resp.status_code \in {200, 204}
        /\ probe.resp.body \in {"json", "empty"}) =>
           /\ ~outcome.result.value.error
           /\ outcome.result.value.status_code \in {200, 204}

\* C30: the node after call_model depends on the answer of that step
\* alone: call_tool exactly when the answer proposes tool calls; after a
\* text answer, ask_for_clarification when the text was classified as a
\* clarification and END otherwise.
Answer == state'.chat_history[Len(state'.chat_history)]
C30_RoutingByOutcomeOnly ==
    [][ (pc = "call_model" /\ steps' = steps + 1) =>
          /\ pc' = "call_tool" <=> Answer.tool_calls # << >>
          /\ Answer.tool_calls = << >> =>
                pc' = (IF state'.clarification_needed THEN "ask_for_clarification" ELSE "END") ]_vars

\* C31: with the backend address unset, with no token given to
\* call_spring_api, or with a method the client does not support, the
\* client sends no HTTP request and returns an error value; so does the
\* client of the project tools with the backend address unset.
Unconfigured ==
    \/ SPRING_BACKEND_URL = None
    \/ probe.jwt_token = None
    \/ probe.method \notin {"POST", "GET", "PUT", "DELETE"}
C31_NoRequestWhenUnconfigured ==
    /\ (pc = "done" /\ probe.kind = "client" /\ Unconfigured) =>
          /\ http = << >>
          /\ ~outcome.result.raised
          /\ outcome.result.value.error
    /\ (Executed /\ probe.name \in ProjectTools /\ SPRING_BACKEND_URL = None) =>
          /\ http = << >>
          /\ ~outcome.result.raised
          /\ outcome.result.value = "error_dict"
C31_Witness ==
    /\ pc = "done"
    /\ probe.kind = "client"
    /\ SPRING_BACKEND_URL # None
    /\ probe.jwt_token = None
    /\ probe.method = "GET"
    /\ probe.resp.kind = "response"
    /\ outcome.result.value.kind = "jwt_required"

\* C32: every entry of the last batch's outputs has its tool message in
\* the history, carrying the entry's call id and the JSON serialization
\* of the entry's value: the returned value, empty ones included, or the
\* error text of a call that raised.
C32_ContentIsSerializedValue ==
    \A i \in 1..Len(state.tool_output) :
        \E k \in (PriorLen + 1)..Len(state.chat_history) :
            /\ state.chat_history[k].type = "tool"
            /\ state.chat_history[k].tool_call_id = state.tool_output[i].original_tool_call_id
            /\ state.chat_history[k].content = <<"json", state.tool_output[i].value>>

\* C33: a request without a user id is answered 400 and a request with a
\* user id but without a bearer token is answered 401, and a request so
\* rejected had no effect: nothing is stored, the graph took no step and
\* holds no state, no tool was attempted and no remote call was made.
RejectedEarly == pc = "done" /\ http_response.status_code \in {400, 401}
C33_RejectedBeforeAnyEffect ==
    /\ (pc # "request" /\ request.user_id = None) =>
          (pc = "done" /\ http_response.status_code = 400)
    /\ (pc # "request" /\ request.user_id # None /\ JwtOf(request.auth_header) = None) =>
          (pc = "done" /\ http_response.status_code = 401)
    /\ RejectedEarly =>
          /\ db = << >>
          /\ steps = 0
          /\ state = EmptyState
          /\ attempts = << >>
          /\ http = << >>
          /\ exception = None
C33_Witness ==
    /\ pc = "done"
    /\ http_response.status_code = 401
    /\ request.user_id # None
    /\ request.auth_header = <<"Basic", "abc">>
    /\ db = << >>

\* C34: over sequential turns the store changes only as follows: accepting
\* a turn appends the user's message before the run starts; the run itself
\* stores nothing; a run that completes appends exactly one bot message,
\* whose content is the non-empty reply returned to the caller; a run that
\* fails, a rejected request and the arrival of the next request leave the
\* store as it is. Hence every bot message in the store is immediately
\* preceded by a user message of the same user, and the last row of a
\* failed turn is the user's message.
UserRow == ChatMessage(request.user_id, "user", request.user_input)
Running == pc \notin {"request", "done"}
Alternates ==
    \A k \in 1..Len(db) :
        db[k].sender = "bot" =>
            /\ k > 1
            /\ db[k - 1].sender = "user"
            /\ db[k - 1].user_id = db[k].user_id
TurnStores ==
    /\ (pc = "request" /\ pc' \notin {"request", "done"}) => db' = Append(db, UserRow)
    /\ (pc = "request" /\ pc' = "done") => db' = db
    /\ (Running /\ pc' # "done") => db' = db
    /\ (Running /\ pc' = "done" /\ http_response'.status_code = 200) =>
          /\ http_response'.body # NoText
          /\ db' = Append(db, ChatMessage(request.user_id, "bot", http_response'.body))
          /\ db[Len(db)] = UserRow
    /\ (Running /\ pc' = "done" /\ http_response'.status_code # 200) =>
          /\ db' = db
          /\ db[Len(db)] = UserRow
    /\ pc = "done" => db' = db
C34_StoredLogAlternates == [](Alternates) /\ [][TurnStores]_vars
C34_Witness ==
    /\ pc = "done"
    /\ http_response.status_code = 200
    /\ Len(db) = 4
    /\ db[1].sender = "user"
    /\ db[2].sender = "user"
    /\ db[3].sender = "user"
    /\ db[4].sender = "bot"
    /\ db[4].content = http_response.body

====
